---- MODULE Spec2Model ----
(***************************************************************************)
(* Example 6 of PyRTL (ipynb-examples/example6-memory.ipynb): two          *)
(* memories written through an enabled write port, one addressed by an     *)
(* input and one by a register, and two ROMs, one defined by a function    *)
(* and one by a list, each driven by a cycle-based simulation.             *)
(*                                                                         *)
(* The circuits, their stimulus and the driving loops are the notebook's.  *)
(* The simulator the notebook calls (MemBlock, RomBlock, Simulation.step)  *)
(* is not part of the notebook: its storage, evaluate and commit           *)
(* semantics follow the design document.                                   *)
(***************************************************************************)
EXTENDS Integers, Sequences, FiniteSets, TLC

VARIABLES
    pc,           \* position in the notebook
    cycle,        \* the loop variable of the driving loop: step calls issued
    block,        \* the working block: "empty", "memory" or "rom"
    phase,        \* the driver: "NoSim", "Idle", "Evaluate", "Commit"
    err,          \* outcome of the last Simulation call: "none" or an ErrorKind
    call,         \* the input assignment the last step call was given
    inputs,       \* the input assignment of the step in progress
    pending,      \* the write ports' staged writes of the step in progress
    regs,         \* SimulationState.register_values
    mems,         \* SimulationState.memory_contents
    cycle_index,  \* SimulationState.cycle_index
    trace,        \* the record the tracer received last
    same_stimulus,\* history: mem1 and mem2 had the same contents at
                  \* construction, and waddr = count in every cycle since
                  \* in which we was set
    memory_value_map, \* the map the last Simulation call was given
    written,      \* history: the (memory, address) cells a commit has written
    diagnostics   \* what the last commit reported: "none", "WriteConflict"

vars == <<pc, cycle, block, phase, err, call, inputs, pending, regs, mems,
          cycle_index, trace, same_stimulus, memory_value_map, written,
          diagnostics>>

(***************************************************************************)
(* Bounds of the model.                                                    *)
(***************************************************************************)
\* step calls an arbitrary driver issues per simulation
MaxCycles == 3

\* write data an arbitrary driver supplies
AnyData == {1, 2}

\* write and read addresses an arbitrary driver supplies
AnyAddrs == {0, 1, 2, 7}

(***************************************************************************)
(* Bit vectors.                                                            *)
(***************************************************************************)
RECURSIVE Pow2(_)
Pow2(n) == IF n = 0 THEN 1 ELSE 2 * Pow2(n - 1)

RECURSIVE BitLength(_)
BitLength(v) == IF v = 0 THEN 0 ELSE 1 + BitLength(v \div 2)

\* a value fits a wire of the given bitwidth
Fits(v, width) == v >= 0 /\ BitLength(v) <= width

\* the low `width` bits of v
RECURSIVE Truncate(_, _)
Truncate(v, width) ==
    IF width = 0 \/ v = 0 THEN 0
    ELSE (v % 2) + 2 * Truncate(v \div 2, width - 1)

NoRecord == [none |-> TRUE]

(***************************************************************************)
(* The memory circuit of Part 1.                                           *)
(***************************************************************************)
MemBitwidth == 32
MemAddrwidth == 3
CountBitwidth == 3

MemAddrs == 0 .. (Pow2(MemAddrwidth) - 1)

\* the slip Input(2, 'we'): the enable wire one bit too wide
MemInputWidth_wide_we ==
    [we |-> 2, waddr |-> MemAddrwidth, wdata |-> MemBitwidth,
     raddr |-> MemAddrwidth]

\* the Input wires and their bitwidths
MemInputWidth == [we |-> 1, waddr |-> MemAddrwidth, wdata |-> MemBitwidth,
                  raddr |-> MemAddrwidth]

\* simvals: one character per cycle (notebook cell "simvals = {...}")
simvals == [
    we    |-> <<"0","0","1","1","1","1","1","1","1","1","0","0","0",
                "0","0","0","0","0","0","0","0","0","0","0","0","0">>,
    waddr |-> <<"0","0","0","1","2","3","4","5","6","7","0","0","0",
                "0","0","0","0","0","0","0","0","0","0","0","0","0">>,
    wdata |-> <<"0","0","1","2","3","4","5","6","7","8","9","9","9",
                "0","0","0","0","0","0","0","0","0","0","0","0","0">>,
    raddr |-> <<"0","0","0","0","0","0","0","0","0","0","0","0","0",
                "0","0","0","0","1","2","3","4","5","6","7","7","7">>]

\* Python's int() of a one-character decimal string
int(c) ==
    CASE c = "0" -> 0 [] c = "1" -> 1 [] c = "2" -> 2 [] c = "3" -> 3
      [] c = "4" -> 4 [] c = "5" -> 5 [] c = "6" -> 6 [] c = "7" -> 7
      [] c = "8" -> 8 [] c = "9" -> 9

\* the slip range(len(simvals['we']) - 1)
MemRunLength_short == Len(simvals.we) - 1

\* len(simvals['we'])
MemRunLength == Len(simvals.we)

\* the slip v[cycle - 1]: cycle 0 reads the last character, every other
\* cycle the character of the cycle before
MemStimulus_shifted(c) ==
    [k \in DOMAIN simvals |->
        int(simvals[k][IF c = 0 THEN Len(simvals[k]) ELSE c])]

\* {k: int(v[cycle]) for k, v in simvals.items()}, cycle counted from 0
MemStimulus(c) == [k \in DOMAIN simvals |-> int(simvals[k][c + 1])]

\* {addr: 9 for addr in range(8)}
mem1_init == [addr \in 0 .. 7 |-> 9]
mem2_init == [addr \in 0 .. 7 |-> 9]

\* {mem1: mem1_init, mem2: mem2_init}
memvals == [mem1 |-> mem1_init, mem2 |-> mem2_init]

(***************************************************************************)
(* Storage elements and ports.                                             *)
(***************************************************************************)
\* StorageElement.read: the address is masked to the address width
Read(contents, address, addrwidth) == contents[Truncate(address, addrwidth)]

\* MemBlock.EnabledWrite(data, enable)
EnabledWrite(data, enable) == [data |-> data, enable |-> enable]

\* a write port's staged write; the effective enable is enable # 0
StageWrite(mem, address, ew) ==
    [mem |-> mem, address |-> address, data |-> ew.data,
     enabled |-> (ew.enable # 0)]

\* the other tie-break: the staged writes applied from the last declared
\* port to the first, so the port declared first wins
RECURSIVE CommitPendingWrites_first_wins(_, _, _)
CommitPendingWrites_first_wins(mem, contents, writes) ==
    IF writes = <<>> THEN contents
    ELSE LET w == writes[Len(writes)]
             c == IF w.mem = mem /\ w.enabled
                  THEN [contents EXCEPT ![w.address] = w.data]
                  ELSE contents
         IN  CommitPendingWrites_first_wins(
                 mem, c, SubSeq(writes, 1, Len(writes) - 1))

\* commit_pending_writes for one storage element: the staged writes are
\* applied in declaration order, so the port declared last wins
RECURSIVE CommitPendingWrites(_, _, _)
CommitPendingWrites(mem, contents, writes) ==
    IF writes = <<>> THEN contents
    ELSE LET w == Head(writes)
             c == IF w.mem = mem /\ w.enabled
                  THEN [contents EXCEPT ![w.address] = w.data]
                  ELSE contents
         IN  CommitPendingWrites(mem, c, Tail(writes))

\* a RAM's contents from its entry of the memory value map: an address the
\* map does not give reads as zero
InitialContents(addrs, map) ==
    [a \in addrs |-> IF a \in DOMAIN map THEN map[a] ELSE 0]

\* select(sel, truecase, falsecase)
select(sel, truecase, falsecase) == IF sel # 0 THEN truecase ELSE falsecase

(***************************************************************************)
(* The nets of the memory circuit: in is the input assignment, r the       *)
(* register values, m the memory contents at the start of the cycle.       *)
(***************************************************************************)
\* the slip of a write-through read port: a read of the address being
\* written returns the data being written
rdata1_write_through(in, m) ==
    IF in.we # 0 /\ in.raddr = in.waddr
    THEN in.wdata
    ELSE Read(m.mem1, in.raddr, MemAddrwidth)

\* rdata1 <<= mem1[raddr]
rdata1(in, m) == Read(m.mem1, in.raddr, MemAddrwidth)

\* the slip rdata2 <<= mem1[raddr]
rdata2_of_mem1(in, m) == Read(m.mem1, in.raddr, MemAddrwidth)

\* rdata2 <<= mem2[raddr]
rdata2(in, m) == Read(m.mem2, in.raddr, MemAddrwidth)

\* the slip mem1[waddr] <<= wdata: a write port without its enable
mem1_write_always(in, r) ==
    StageWrite("mem1", in.waddr, EnabledWrite(in.wdata, 1))

\* mem1[waddr] <<= WE(wdata, we)
mem1_write(in, r) == StageWrite("mem1", in.waddr, EnabledWrite(in.wdata, in.we))

\* the slip mem2[count + 1] <<= WE(wdata, we)
mem2_write_next_count(in, r) ==
    StageWrite("mem2", Truncate(r.count + 1, MemAddrwidth),
               EnabledWrite(in.wdata, in.we))

\* the slip mem1[count] <<= WE(wdata, we): the second port on mem1
mem2_write_into_mem1(in, r) ==
    StageWrite("mem1", r.count, EnabledWrite(in.wdata, in.we))

\* mem2[count] <<= WE(wdata, we)
mem2_write(in, r) == StageWrite("mem2", r.count, EnabledWrite(in.wdata, in.we))

\* the slip select(we, falsecase=count + 1, truecase=count)
count_next_swapped(in, r) ==
    Truncate(select(in.we, r.count, r.count + 1), CountBitwidth)

\* the slip of a count register wider than the address: no wrap at 8
count_next_untruncated(in, r) == select(in.we, r.count + 1, r.count)

\* count.next <<= select(we, falsecase=count, truecase=count + 1); the sum
\* is truncated to the register's bitwidth
count_next(in, r) == Truncate(select(in.we, r.count + 1, r.count), CountBitwidth)

\* validate <<= waddr == count
validate(in, r) == IF in.waddr = r.count THEN 1 ELSE 0

\* what the tracer receives for one cycle of the memory circuit
MemTrace(in, r, m) ==
    [we |-> in.we, waddr |-> in.waddr, wdata |-> in.wdata, raddr |-> in.raddr,
     count |-> r.count, rdata1 |-> rdata1(in, m), rdata2 |-> rdata2(in, m),
     validate |-> validate(in, r)]

(***************************************************************************)
(* The ROM circuit of Part 2.                                              *)
(***************************************************************************)
RomBitwidth == 5
RomAddrwidth == 4

RomAddrs == 0 .. (Pow2(RomAddrwidth) - 1)

RomInputWidth == [rom_in |-> RomAddrwidth, rom_in_2 |-> RomAddrwidth]

\* the slip 32 - 2 * address
rom_data_func_even(address) == 32 - 2 * address

\* def rom_data_func(address): return 31 - 2 * address
rom_data_func(address) == 31 - 2 * address

\* the slip range(1, 17)
rom_data_array_from_1 == [i \in 1 .. 16 |-> rom_data_func(i)]

\* [rom_data_func(a) for a in range(16)]: a list, here indexed from 1
rom_data_array == [i \in 1 .. 16 |-> rom_data_func(i - 1)]

\* RomBlock(bitwidth=5, addrwidth=4, romdata=rom_data_func)
rom1 == [a \in RomAddrs |-> rom_data_func(a)]

\* RomBlock(5, 4, rom_data_array)
rom2 == [a \in RomAddrs |-> rom_data_array[a + 1]]

\* temp1 = rom1[rom_add_1]
temp1(in, m) == Read(m.rom1, in.rom_in, RomAddrwidth)

\* temp2 = rom2[rom_add_1]
temp2(in, m) == Read(m.rom2, in.rom_in, RomAddrwidth)

\* the slip rom_out_3 <<= rom2[rom_add_1]: both read ports on one address
rom_out_3_of_rom_in(in, m) == Read(m.rom2, in.rom_in, RomAddrwidth)

\* rom_out_3 <<= rom2[rom_add_2]
rom_out_3(in, m) == Read(m.rom2, in.rom_in_2, RomAddrwidth)

\* cmp_out <<= temp1 == temp2
cmp_out(in, m) == IF temp1(in, m) = temp2(in, m) THEN 1 ELSE 0

RomTrace(in, m) ==
    [rom_in |-> in.rom_in, rom_in_2 |-> in.rom_in_2,
     rom_out_1 |-> temp1(in, m), rom_out_2 |-> temp2(in, m),
     rom_out_3 |-> rom_out_3(in, m), cmp_out |-> cmp_out(in, m)]

\* simvals['rom_in']
rom_in_vals == <<1, 11, 4, 2, 7, 8, 2, 4, 5, 13, 15, 3, 4, 4, 4, 8, 12, 13, 2, 1>>

\* len(simvals['rom_in'])
RomRunLength == Len(rom_in_vals)

\* the slip random.randint(0, 16), whose upper end is included
randint_0_16 == 0 .. 16

\* random.randrange(0, 16)
randrange_0_16 == 0 .. 15

(***************************************************************************)
(* The simulation driver.                                                  *)
(***************************************************************************)
NoPending == [writes |-> <<>>, next |-> <<>>]

\* the Input wires of the working block
InputWidth(b) ==
    CASE b = "memory" -> MemInputWidth
      [] b = "rom"    -> RomInputWidth
      [] OTHER        -> <<>>

\* the slip rom1 = MemBlock(...): only rom2 is read-only
RomBlocks_rom2_only(b) == IF b = "rom" THEN {"rom2"} ELSE {}

\* the read-only storage elements of the working block
RomBlocks(b) == IF b = "rom" THEN {"rom1", "rom2"} ELSE {}

\* step's constraint on its input assignment: every Input wire has a value,
\* and each value fits its wire's bitwidth
InputMismatch(in, widths) ==
    \E w \in DOMAIN widths : w \notin DOMAIN in \/ ~Fits(in[w], widths[w])

\* the contents a memory of the memory block starts with
MemInitial(map, mem) ==
    InitialContents(MemAddrs, IF mem \in DOMAIN map THEN map[mem] ELSE <<>>)

\* Simulation(tracer=sim_trace, memory_value_map=map) on the working block
Simulation(map) ==
    /\ phase = "NoSim"
    /\ block \in {"memory", "rom"}
    /\ IF DOMAIN map \cap RomBlocks(block) # {}
       THEN /\ err' = "ReadOnlyViolation"
            /\ UNCHANGED <<phase, regs, mems, cycle_index, trace, cycle,
                           same_stimulus, written, diagnostics>>
       ELSE /\ err' = "none"
            /\ phase' = "Idle"
            /\ written' = {}
            /\ diagnostics' = "none"
            /\ cycle_index' = 0
            /\ cycle' = 0
            /\ trace' = NoRecord
            /\ IF block = "memory"
               THEN /\ regs' = [count |-> 0]
                    /\ mems' = [mem1 |-> MemInitial(map, "mem1"),
                                mem2 |-> MemInitial(map, "mem2")]
                    /\ same_stimulus' =
                           (MemInitial(map, "mem1") = MemInitial(map, "mem2"))
               ELSE /\ regs' = <<>>
                    /\ mems' = [rom1 |-> rom1, rom2 |-> rom2]
                    /\ same_stimulus' = TRUE
    /\ memory_value_map' = map
    /\ UNCHANGED <<block, call, inputs, pending>>

\* sim.step(in), up to the point where the cycle is accepted
Step(in) ==
    /\ phase = "Idle"
    /\ IF InputMismatch(in, InputWidth(block))
       THEN /\ err' = "InputMismatch"
            /\ UNCHANGED <<phase, inputs>>
       ELSE /\ err' = "none"
            /\ phase' = "Evaluate"
            /\ inputs' = in
    /\ call' = in
    /\ cycle' = cycle + 1
    /\ UNCHANGED <<block, pending, regs, mems, cycle_index, trace,
                   same_stimulus, memory_value_map, written, diagnostics>>

\* the two write ports of the memory block, in declaration order
MemWrites(in, r) == <<mem1_write(in, r), mem2_write(in, r)>>

\* this cycle gives the write ports of mem1 and mem2 the same inputs: they
\* share wdata and we, and the addresses are waddr and count
SameWrite(in, r) == in.we = 0 \/ in.waddr = r.count

\* the combinational evaluator: every wire from the state at the start of
\* the cycle and this cycle's inputs; the tracer records the wires
Evaluate ==
    /\ phase = "Evaluate"
    /\ phase' = "Commit"
    /\ IF block = "memory"
       THEN /\ trace' = MemTrace(inputs, regs, mems)
            /\ pending' = [writes |-> MemWrites(inputs, regs),
                           next |-> [count |-> count_next(inputs, regs)]]
            /\ same_stimulus' =
                   (same_stimulus /\ SameWrite(inputs, regs))
       ELSE /\ trace' = RomTrace(inputs, mems)
            /\ pending' = [writes |-> <<>>, next |-> regs]
            /\ UNCHANGED same_stimulus
    /\ UNCHANGED <<pc, cycle, block, err, call, inputs, regs, mems,
                   cycle_index, memory_value_map, written, diagnostics>>

\* the register group of the commit: current := the evaluated next value
CommitRegisters(s, p) == [s EXCEPT !.regs = p.next]

\* the storage group of the commit: every element's staged writes
CommitMemories(s, p) ==
    [s EXCEPT !.mems = [m \in DOMAIN s.mems |->
                            CommitPendingWrites(m, s.mems[m], p.writes)]]

\* the two groups applied to the state s, one after the other
CommitInOrder(first, s, p) ==
    IF first = "registers"
    THEN CommitMemories(CommitRegisters(s, p), p)
    ELSE CommitRegisters(CommitMemories(s, p), p)

\* the cells the enabled staged writes store to
WrittenCells(writes) ==
    {<<writes[i].mem, writes[i].address>> :
        i \in {j \in DOMAIN writes : writes[j].enabled}}

\* two enabled write ports of one storage element target one address
WriteConflict(writes) ==
    \E i, j \in DOMAIN writes :
        /\ i < j
        /\ writes[i].enabled /\ writes[j].enabled
        /\ writes[i].mem = writes[j].mem
        /\ writes[i].address = writes[j].address

\* the sequential state committer: the register group and the storage
\* group, in either order, as one step
Commit ==
    /\ phase = "Commit"
    /\ phase' = "Idle"
    /\ \E first \in {"registers", "memories"} :
           LET s == CommitInOrder(first, [regs |-> regs, mems |-> mems],
                                  pending)
           IN  regs' = s.regs /\ mems' = s.mems
    /\ cycle_index' = cycle_index + 1
    /\ written' = written \cup WrittenCells(pending.writes)
    /\ diagnostics' = IF WriteConflict(pending.writes)
                      THEN "WriteConflict" ELSE "none"
    /\ pending' = NoPending
    /\ inputs' = NoRecord
    /\ UNCHANGED <<pc, cycle, block, err, call, trace, same_stimulus,
                   memory_value_map>>

(***************************************************************************)
(* The notebook.                                                           *)
(***************************************************************************)
Init ==
    /\ pc = "start"
    /\ cycle = 0
    /\ block = "empty"
    /\ phase = "NoSim"
    /\ err = "none"
    /\ call = NoRecord
    /\ inputs = NoRecord
    /\ pending = NoPending
    /\ regs = <<>>
    /\ mems = <<>>
    /\ cycle_index = 0
    /\ trace = NoRecord
    /\ same_stimulus = TRUE
    /\ memory_value_map = <<>>
    /\ written = {}
    /\ diagnostics = "none"

\* pyrtl.reset_working_block(): the circuit and its simulation are dropped
reset_working_block(from, to) ==
    /\ pc = from
    /\ pc' = to
    /\ block' = "empty"
    /\ phase' = "NoSim"
    /\ err' = "none"
    /\ call' = NoRecord
    /\ inputs' = NoRecord
    /\ pending' = NoPending
    /\ regs' = <<>>
    /\ mems' = <<>>
    /\ cycle_index' = 0
    /\ cycle' = 0
    /\ trace' = NoRecord
    /\ same_stimulus' = TRUE
    /\ memory_value_map' = <<>>
    /\ written' = {}
    /\ diagnostics' = "none"

ResetAtStart == reset_working_block("start", "part1")

\* the cells that define mem1, mem2, the wires and the ports
BuildMemory ==
    /\ pc = "part1"
    /\ pc' = "mem_built"
    /\ block' = "memory"
    /\ UNCHANGED <<cycle, phase, err, call, inputs, pending, regs, mems,
                   cycle_index, trace, same_stimulus, memory_value_map,
                   written, diagnostics>>

\* sim = pyrtl.Simulation(tracer=sim_trace, memory_value_map=memvals)
MemSimulation ==
    /\ pc = "mem_built"
    /\ Simulation(memvals)
    /\ pc' = "mem_loop"

\* for cycle in range(len(simvals['we'])): sim.step({...})
MemLoopStep ==
    /\ pc = "mem_loop"
    /\ err = "none"
    /\ cycle < MemRunLength
    /\ Step(MemStimulus(cycle))
    /\ UNCHANGED pc

\* sim_trace.render_trace()
MemLoopEnd ==
    /\ pc = "mem_loop"
    /\ phase = "Idle"
    /\ err = "none"
    /\ cycle = MemRunLength
    /\ pc' = "mem_rendered"
    /\ UNCHANGED <<cycle, block, phase, err, call, inputs, pending, regs,
                   mems, cycle_index, trace, same_stimulus,
                   memory_value_map, written, diagnostics>>

\* the slip of leaving out pyrtl.reset_working_block() between the examples
ResetForRom_skipped ==
    /\ pc = "mem_rendered"
    /\ pc' = "part2"
    /\ UNCHANGED <<cycle, block, phase, err, call, inputs, pending, regs,
                   mems, cycle_index, trace, same_stimulus,
                   memory_value_map, written, diagnostics>>

\* cleanup in preparation for the rom example
ResetForRom == reset_working_block("mem_rendered", "part2")

\* the cells that define rom1, rom2, the wires and the read ports
BuildRom ==
    /\ pc = "part2"
    /\ pc' = "rom_built"
    /\ block' = "rom"
    /\ UNCHANGED <<cycle, phase, err, call, inputs, pending, regs, mems,
                   cycle_index, trace, same_stimulus, memory_value_map,
                   written, diagnostics>>

\* sim = pyrtl.Simulation(tracer=sim_trace)
RomSimulation ==
    /\ pc = "rom_built"
    /\ Simulation(<<>>)
    /\ pc' = "rom_loop"

\* for cycle in range(len(simvals['rom_in'])): sim.step({...})
RomLoopStep ==
    /\ pc = "rom_loop"
    /\ err = "none"
    /\ cycle < RomRunLength
    /\ \E r \in randrange_0_16 :
           Step([rom_in |-> rom_in_vals[cycle + 1], rom_in_2 |-> r])
    /\ UNCHANGED pc

\* sim_trace.render_trace()
RomLoopEnd ==
    /\ pc = "rom_loop"
    /\ phase = "Idle"
    /\ err = "none"
    /\ cycle = RomRunLength
    /\ pc' = "done"
    /\ UNCHANGED <<cycle, block, phase, err, call, inputs, pending, regs,
                   mems, cycle_index, trace, same_stimulus,
                   memory_value_map, written, diagnostics>>

Next ==
    \/ ResetAtStart
    \/ BuildMemory
    \/ MemSimulation
    \/ MemLoopStep
    \/ Evaluate
    \/ Commit
    \/ MemLoopEnd
    \/ ResetForRom
    \/ BuildRom
    \/ RomSimulation
    \/ RomLoopStep
    \/ RomLoopEnd

Spec == Init /\ [][Next]_vars

(***************************************************************************)
(* The same two circuits under any driver: any memory value map, and at    *)
(* most MaxCycles step calls with any input assignment, well-formed or     *)
(* not.                                                                    *)
(***************************************************************************)
AnyMemInputs ==
    [we : {0, 1}, waddr : AnyAddrs, wdata : AnyData, raddr : AnyAddrs]
    \cup {[we |-> 2, waddr |-> 0, wdata |-> 1, raddr |-> 0],
          [we |-> 1, waddr |-> 8, wdata |-> 1, raddr |-> 0],
          [we |-> 1, waddr |-> 0, wdata |-> 1, raddr |-> 8],
          [we |-> 1, waddr |-> 0, wdata |-> 1],
          [waddr |-> 0, wdata |-> 1, raddr |-> 0]}

AnyRomInputs ==
    [rom_in : RomAddrs, rom_in_2 : RomAddrs]
    \cup {[rom_in |-> 16, rom_in_2 |-> 0], [rom_in |-> 5]}

AnyMemvals ==
    {memvals, <<>>, [mem1 |-> [a \in {0} |-> 5]]}

AnyRomMemvals ==
    {<<>>, [rom1 |-> [a \in {0} |-> 5]]}

AnyMemSimulation ==
    /\ pc = "mem_built"
    /\ \E map \in AnyMemvals : Simulation(map)
    /\ pc' = "mem_loop"

AnyMemStep ==
    /\ pc = "mem_loop"
    /\ cycle < MaxCycles
    /\ \E in \in AnyMemInputs : Step(in)
    /\ UNCHANGED pc

AnyMemEnd ==
    /\ pc = "mem_loop"
    /\ phase = "Idle"
    /\ pc' = "mem_rendered"
    /\ UNCHANGED <<cycle, block, phase, err, call, inputs, pending, regs,
                   mems, cycle_index, trace, same_stimulus,
                   memory_value_map, written, diagnostics>>

AnyRomSimulation ==
    /\ pc = "rom_built"
    /\ \E map \in AnyRomMemvals : Simulation(map)
    /\ pc' = IF phase' = "Idle" THEN "rom_loop" ELSE "rom_built"

AnyRomStep ==
    /\ pc = "rom_loop"
    /\ cycle < MaxCycles
    /\ \E in \in AnyRomInputs : Step(in)
    /\ UNCHANGED pc

AnyRomEnd ==
    /\ pc = "rom_loop"
    /\ phase = "Idle"
    /\ pc' = "done"
    /\ UNCHANGED <<cycle, block, phase, err, call, inputs, pending, regs,
                   mems, cycle_index, trace, same_stimulus,
                   memory_value_map, written, diagnostics>>

NextAny ==
    \/ ResetAtStart
    \/ BuildMemory
    \/ AnyMemSimulation
    \/ AnyMemStep
    \/ Evaluate
    \/ Commit
    \/ AnyMemEnd
    \/ ResetForRom
    \/ BuildRom
    \/ AnyRomSimulation
    \/ AnyRomStep
    \/ AnyRomEnd

SpecAny == Init /\ [][NextAny]_vars

(***************************************************************************)
(* One storage element with three write ports a, b, c, declared in that    *)
(* order ("each memory can have multiple read and write ports"), under any *)
(* driver: at most MaxCycles step calls, each port with its own enable,    *)
(* address and data.                                                       *)
(***************************************************************************)
PortsAddrs == {0, 1}

PortsData == {1, 2}

\* port c's data differs from whatever a and b write
PortsDataLast == {3}

\* the Input wires of the three write ports
PortsInputWidth ==
    [we_a |-> 1, waddr_a |-> MemAddrwidth, wdata_a |-> MemBitwidth,
     we_b |-> 1, waddr_b |-> MemAddrwidth, wdata_b |-> MemBitwidth,
     we_c |-> 1, waddr_c |-> MemAddrwidth, wdata_c |-> MemBitwidth]

PortsInputs ==
    [we_a : {0, 1}, waddr_a : PortsAddrs, wdata_a : PortsData,
     we_b : {0, 1}, waddr_b : PortsAddrs, wdata_b : PortsData,
     we_c : {0, 1}, waddr_c : PortsAddrs, wdata_c : PortsDataLast]

\* the staged writes of the three ports, in declaration order
PortsWrites(in) ==
    <<StageWrite("mem", in.waddr_a, EnabledWrite(in.wdata_a, in.we_a)),
      StageWrite("mem", in.waddr_b, EnabledWrite(in.wdata_b, in.we_b)),
      StageWrite("mem", in.waddr_c, EnabledWrite(in.wdata_c, in.we_c))>>

\* the cells that define the storage element and its write ports
PortsBuild ==
    /\ pc = "part1"
    /\ pc' = "ports_built"
    /\ block' = "ports"
    /\ UNCHANGED <<cycle, phase, err, call, inputs, pending, regs, mems,
                   cycle_index, trace, same_stimulus, memory_value_map,
                   written, diagnostics>>

\* Simulation() on the three-port block, without a memory value map
PortsSimulation ==
    /\ pc = "ports_built"
    /\ phase = "NoSim"
    /\ pc' = "ports_loop"
    /\ phase' = "Idle"
    /\ err' = "none"
    /\ regs' = <<>>
    /\ mems' = [mem |-> InitialContents(MemAddrs, <<>>)]
    /\ cycle_index' = 0
    /\ cycle' = 0
    /\ trace' = NoRecord
    /\ written' = {}
    /\ diagnostics' = "none"
    /\ memory_value_map' = <<>>
    /\ UNCHANGED <<block, call, inputs, pending, same_stimulus>>

\* sim.step(in) with any well-formed assignment to the nine Input wires
PortsStep ==
    /\ pc = "ports_loop"
    /\ cycle < MaxCycles
    /\ phase = "Idle"
    /\ \E in \in PortsInputs :
           /\ ~InputMismatch(in, PortsInputWidth)
           /\ err' = "none"
           /\ phase' = "Evaluate"
           /\ inputs' = in
           /\ call' = in
    /\ cycle' = cycle + 1
    /\ UNCHANGED <<pc, block, pending, regs, mems, cycle_index, trace,
                   same_stimulus, memory_value_map, written, diagnostics>>

\* the combinational evaluator on the three-port block: the tracer records
\* the inputs, and every write port stages its triple
PortsEvaluate ==
    /\ block = "ports"
    /\ phase = "Evaluate"
    /\ phase' = "Commit"
    /\ trace' = inputs
    /\ pending' = [writes |-> PortsWrites(inputs), next |-> regs]
    /\ UNCHANGED <<pc, cycle, block, err, call, inputs, regs, mems,
                   cycle_index, same_stimulus, memory_value_map, written,
                   diagnostics>>

PortsEnd ==
    /\ phase = "Idle"
    /\ reset_working_block("ports_loop", "done")

NextPorts ==
    \/ ResetAtStart
    \/ PortsBuild
    \/ PortsSimulation
    \/ PortsStep
    \/ PortsEvaluate
    \/ Commit
    \/ PortsEnd

SpecPorts == Init /\ [][NextPorts]_vars

(***************************************************************************)
(* Properties.                                                             *)
(***************************************************************************)
\* a simulation of the memory circuit exists
InMemSim == block = "memory" /\ phase # "NoSim"

\* a simulation of the ROM circuit exists
InRomSim == block = "rom" /\ phase # "NoSim"

\* the tracer has received a record
Recorded == trace # NoRecord

\* the cycle the record in trace belongs to, counted from 0
TraceCycle == IF phase = "Commit" THEN cycle_index ELSE cycle_index - 1

\* this step is the evaluation of one cycle of the memory circuit
EvaluatesMemCycle == block = "memory" /\ phase = "Evaluate" /\ phase' = "Commit"

\* this step is the commit of one cycle of the memory circuit
CommitsMemCycle == block = "memory" /\ phase = "Commit" /\ phase' = "Idle"

\* C1: write visibility delay. For a write of d to address a staged in cycle
\* N (we = 1), nothing changes the contents before the commit of cycle N, a
\* read of a in cycle N returns what a held at the start of cycle N, the
\* commit puts d at a, and a read of a in cycle N+1 returns d. The address
\* is waddr for mem1 and the count register's value for mem2.
C1_WriteVisibilityDelay ==
    [][ /\ (InMemSim /\ phase' \in {"Evaluate", "Commit"}) => mems' = mems
        /\ (EvaluatesMemCycle /\ trace'.we = 1) =>
              /\ trace'.raddr = trace'.waddr =>
                     trace'.rdata1 = mems.mem1[trace'.waddr]
              /\ trace'.raddr = trace'.count =>
                     trace'.rdata2 = mems.mem2[trace'.count]
        /\ (CommitsMemCycle /\ trace.we = 1) =>
              /\ mems'.mem1[trace.waddr] = trace.wdata
              /\ mems'.mem2[trace.count] = trace.wdata
        /\ (EvaluatesMemCycle /\ Recorded /\ trace.we = 1) =>
              /\ trace'.raddr = trace.waddr => trace'.rdata1 = trace.wdata
              /\ trace'.raddr = trace.count => trace'.rdata2 = trace.wdata
      ]_vars

\* a cycle that stages a write of 1 to address 1 of mem1 and of mem2 and
\* reads address 1: mem1 gives the 2 written there a cycle before, mem2 the
\* 9 it was constructed with
C1_Witness ==
    /\ InMemSim /\ phase = "Commit" /\ Recorded
    /\ trace.we = 1 /\ trace.wdata = 1
    /\ trace.waddr = 1 /\ trace.count = 1 /\ trace.raddr = 1
    /\ trace.rdata1 = 2 /\ trace.rdata2 = 9
    /\ mems.mem1[1] = 2 /\ mems.mem2[1] = 9

\* the input assignment of the cycle a step belongs to
CycleInputs == IF phase = "Idle" THEN inputs' ELSE inputs

\* C2: write-enable gating. No step of a cycle whose we is 0 (accepting the
\* inputs, evaluating, committing) changes the contents of mem1 or mem2,
\* whatever waddr, wdata and count are.
C2_WriteEnableGating ==
    [][ ( /\ block = "memory"
          /\ phase \in {"Idle", "Evaluate", "Commit"}
          /\ phase' \in {"Idle", "Evaluate", "Commit"}
          /\ phase' # phase
          /\ CycleInputs.we = 0 ) => mems' = mems
      ]_vars

\* a committed cycle with we = 0 and wdata = 2: the cells waddr of mem1 and
\* count of mem2 still hold the 9 they were constructed with
C2_Witness ==
    /\ InMemSim /\ phase = "Idle" /\ Recorded
    /\ trace.we = 0 /\ trace.wdata = 2
    /\ mems.mem1[trace.waddr] = 9
    /\ mems.mem2[trace.count] = 9

\* C3: equivalence under identical stimulus. When mem1 and mem2 started with
\* the same contents and waddr = count held in every cycle with we = 1, the
\* two memories hold the same contents and rdata1 = rdata2 in every cycle.
C3_EquivalentMemories ==
    (InMemSim /\ same_stimulus) =>
        /\ mems.mem1 = mems.mem2
        /\ Recorded => trace.rdata1 = trace.rdata2

\* three cycles of identical stimulus, two of them writes, the last one
\* reading back a written value from both memories
C3_Witness ==
    /\ InMemSim /\ same_stimulus /\ Recorded
    /\ cycle_index = 3 /\ regs.count = 2
    /\ trace.rdata1 \in AnyData /\ trace.rdata2 = trace.rdata1

\* C4: ROM immutability. In every state of a ROM simulation, rom1 and rom2
\* hold 31 - 2a at every address a in 0..15.
C4_RomImmutable ==
    InRomSim =>
        \A a \in 0 .. 15 :
            /\ mems.rom1[a] = 31 - 2 * a
            /\ mems.rom2[a] = 31 - 2 * a

\* MaxCycles cycles of the ROM circuit are committed
C4_Witness ==
    /\ InRomSim /\ phase = "Idle" /\ cycle_index = MaxCycles
    /\ mems.rom1[15] = 1 /\ mems.rom2[0] = 31

\* C5: the notebook's memory run. Once the 8 enabled writes are committed
\* (cycles 2..9), a read of address k gives k + 1 on rdata1 and on rdata2:
\* addresses 0..7 give 1..8.
C5_NotebookReadback ==
    (InMemSim /\ Recorded /\ TraceCycle >= 10) =>
        /\ trace.rdata1 = trace.raddr + 1
        /\ trace.rdata2 = trace.raddr + 1

\* the read of address 7 gives 8 from both memories
C5_Witness ==
    /\ InMemSim /\ Recorded /\ TraceCycle >= 10
    /\ trace.raddr = 7 /\ trace.rdata1 = 8 /\ trace.rdata2 = 8

\* C6 as claimed: the scan of the read address starts in cycle 19, address
\* k is read in cycle 19 + k and gives k + 1.
C6_ScanFromCycle19 ==
    (InMemSim /\ Recorded) =>
        \A k \in 0 .. 7 :
            TraceCycle = 19 + k =>
                /\ trace.raddr = k
                /\ trace.rdata1 = k + 1
                /\ trace.rdata2 = k + 1

\* C6: the scan of the read address starts in cycle 16, counted from 0:
\* address k is read in cycle 16 + k and gives k + 1 on rdata1 and rdata2,
\* for k = 0..7.
C6_ScanFromCycle16 ==
    (InMemSim /\ Recorded) =>
        \A k \in 0 .. 7 :
            TraceCycle = 16 + k =>
                /\ trace.raddr = k
                /\ trace.rdata1 = k + 1
                /\ trace.rdata2 = k + 1

\* cycle 19 reads address 3 and gets 4
C6_Witness ==
    /\ InMemSim /\ Recorded /\ TraceCycle = 19
    /\ trace.raddr = 3 /\ trace.rdata1 = 4 /\ trace.rdata2 = 4

\* C7: the notebook's memory run. From the commit of the 8th enabled write
\* (cycle 9) on, mem1 and mem2 hold a + 1 at every address a in 0..7.
C7_NotebookContents ==
    (InMemSim /\ cycle_index >= 10) =>
        /\ mems.mem1 = [a \in 0 .. 7 |-> a + 1]
        /\ mems.mem2 = [a \in 0 .. 7 |-> a + 1]

\* the end of the run, after the cycles with we = 0 and wdata = 9
C7_Witness ==
    /\ pc = "mem_rendered" /\ cycle_index = 26
    /\ mems.mem1[0] = 1 /\ mems.mem1[7] = 8
    /\ mems.mem2[0] = 1 /\ mems.mem2[7] = 8

\* C8: the notebook's memory run. validate is 1 in every cycle.
C8_ValidateAlways ==
    (InMemSim /\ Recorded) => trace.validate = 1

\* the cycle after the 8th write: count has wrapped to 0, and so is waddr
C8_Witness ==
    /\ InMemSim /\ Recorded /\ TraceCycle = 10
    /\ trace.count = 0 /\ trace.waddr = 0 /\ trace.validate = 1

\* C9: in every cycle of a ROM simulation rom_out_1 and rom_out_2 are
\* 31 - 2 * rom_in, and cmp_out is 1.
C9_RomsAgree ==
    (InRomSim /\ Recorded) =>
        /\ trace.rom_out_1 = 31 - 2 * trace.rom_in
        /\ trace.rom_out_2 = 31 - 2 * trace.rom_in
        /\ trace.cmp_out = 1

\* address 5 gives 21 from both ROMs
C9_Witness ==
    /\ InRomSim /\ Recorded
    /\ trace.rom_in = 5 /\ trace.rom_out_1 = 21 /\ trace.rom_out_2 = 21
    /\ trace.cmp_out = 1

\* the assignment misses an Input wire of the working block, or gives one a
\* value above the largest its wire holds
BadCall(in) ==
    IF block = "memory"
    THEN \/ {"we", "waddr", "wdata", "raddr"} \ DOMAIN in # {}
         \/ in.we > 1 \/ in.waddr > 7 \/ in.raddr > 7
    ELSE \/ {"rom_in", "rom_in_2"} \ DOMAIN in # {}
         \/ in.rom_in > 15 \/ in.rom_in_2 > 15

\* this step is a call of sim.step
StepCalled == phase = "Idle" /\ cycle' = cycle + 1

\* C10: a step call whose input assignment misses an Input wire or gives a
\* value too wide for its wire fails with InputMismatch and changes nothing
\* of the simulation; a call with a well-formed assignment is accepted
\* whether or not the call before it failed.
C10_InputMismatch ==
    [][ /\ (StepCalled /\ BadCall(call')) =>
              /\ err' = "InputMismatch"
              /\ UNCHANGED <<block, phase, inputs, pending, regs, mems,
                             cycle_index, trace, same_stimulus>>
        /\ (StepCalled /\ ~BadCall(call')) =>
              /\ err' = "none"
              /\ phase' = "Evaluate"
              /\ inputs' = call'
      ]_vars

\* a failed call after one committed write: count and the cycle index are
\* those of the commit
C10_Witness ==
    /\ InMemSim /\ err = "InputMismatch" /\ phase = "Idle"
    /\ cycle_index = 1 /\ regs.count = 1 /\ cycle = 2

\* this step is a call of pyrtl.Simulation
SimulationCalled == pc \in {"mem_built", "rom_built"} /\ phase = "NoSim"

\* C11: a Simulation call whose memory value map has rom1 or rom2 as a key
\* fails with ReadOnlyViolation: no simulation exists afterwards, no cycle
\* is run, no contents are seeded. A call whose map names only mem1 and
\* mem2 (or nothing) succeeds, and the ROMs of a ROM simulation then hold
\* 31 - 2a, whatever map was rejected before.
C11_RomNotSeeded ==
    [][ SimulationCalled =>
          IF DOMAIN memory_value_map' \cap {"rom1", "rom2"} # {}
          THEN /\ err' = "ReadOnlyViolation"
               /\ phase' = "NoSim"
               /\ cycle_index' = 0
               /\ trace' = NoRecord
               /\ UNCHANGED <<block, regs, mems>>
          ELSE /\ err' = "none"
               /\ phase' = "Idle"
               /\ block = "rom" =>
                      mems' = [r \in {"rom1", "rom2"} |->
                                  [a \in 0 .. 15 |-> 31 - 2 * a]]
      ]_vars

\* a rejected map with rom1 as a key: no simulation, no contents
C11_Witness ==
    /\ block = "rom" /\ err = "ReadOnlyViolation"
    /\ "rom1" \in DOMAIN memory_value_map
    /\ phase = "NoSim" /\ cycle_index = 0 /\ mems = <<>>

\* the value the memory value map seeds the cell with, 0 without an entry
Seeded(mem, a) ==
    IF mem \in DOMAIN memory_value_map /\ a \in DOMAIN memory_value_map[mem]
    THEN memory_value_map[mem][a]
    ELSE 0

\* C12: initial-state loading. A read of an address that no commit has
\* written yet returns the value the memory value map gives the address
\* (9 everywhere with the notebook's map), and 0 where the map has no entry.
C12_InitialContents ==
    (InMemSim /\ phase = "Commit") =>
        /\ <<"mem1", trace.raddr>> \notin written =>
               trace.rdata1 = Seeded("mem1", trace.raddr)
        /\ <<"mem2", trace.raddr>> \notin written =>
               trace.rdata2 = Seeded("mem2", trace.raddr)

\* the third cycle stages the first write, to address 0, and reads address
\* 0: mem1 gives the 5 the map seeds, mem2, which has no entry, gives 0
C12_Witness ==
    /\ InMemSim /\ phase = "Commit" /\ cycle_index = 2 /\ written = {}
    /\ memory_value_map = [mem1 |-> [a \in {0} |-> 5]]
    /\ trace.we = 1 /\ trace.waddr = 0 /\ trace.raddr = 0
    /\ trace.rdata1 = 5 /\ trace.rdata2 = 0

\* C13: the driver's state machine. The phase only moves NoSim -> Idle
\* (construction), Idle -> Evaluate (an accepted step call), Evaluate ->
\* Commit, Commit -> Idle, and Idle -> NoSim (reset); registers, memory
\* contents and cycle_index change in no step that starts in Idle or
\* Evaluate; the step out of Commit adds exactly 1 to cycle_index; and the
\* notebook's memory loop ends with cycle_index = 26.
C13_DriverStateMachine ==
    [][ /\ phase' # phase =>
              <<phase, phase'>> \in {<<"NoSim", "Idle">>,
                                     <<"Idle", "Evaluate">>,
                                     <<"Evaluate", "Commit">>,
                                     <<"Commit", "Idle">>,
                                     <<"Idle", "NoSim">>}
        /\ (phase = "Idle" /\ phase' = "Evaluate") => cycle' = cycle + 1
        /\ (phase \in {"Idle", "Evaluate"} /\ phase' # "NoSim") =>
              UNCHANGED <<regs, mems, cycle_index>>
        /\ phase = "Commit" =>
              phase' = "Idle" /\ cycle_index' = cycle_index + 1
        /\ (pc = "mem_loop" /\ pc' = "mem_rendered") => cycle_index = 26
      ]_vars

\* the memory loop has ended: 26 step calls, 26 committed cycles
C13_Witness ==
    /\ pc = "mem_rendered" /\ phase = "Idle"
    /\ cycle = 26 /\ cycle_index = 26 /\ err = "none"

\* C14: reset isolates circuit definitions. After the reset between the two
\* examples nothing of the memory circuit is left: no wires, no count
\* register, no mem1/mem2, no simulation, no latched inputs, no staged
\* writes, no trace record. From then on the required inputs are exactly
\* rom_in and rom_in_2, the only storage is rom1 and rom2, there is no
\* register, and every recorded ROM output is the function 31 - 2a of the
\* ROM inputs of its own cycle, whatever the memory example did.
C14_ResetIsolates ==
    /\ pc = "part2" =>
          /\ block = "empty" /\ phase = "NoSim" /\ err = "none"
          /\ DOMAIN InputWidth(block) = {}
          /\ regs = <<>> /\ mems = <<>>
          /\ inputs = NoRecord /\ call = NoRecord
          /\ pending = NoPending /\ trace = NoRecord
          /\ cycle = 0 /\ cycle_index = 0
          /\ memory_value_map = <<>> /\ written = {}
    /\ pc \in {"rom_built", "rom_loop", "done"} =>
          /\ DOMAIN InputWidth(block) = {"rom_in", "rom_in_2"}
          /\ DOMAIN regs = {}
          /\ DOMAIN mems \subseteq {"rom1", "rom2"}
          /\ phase # "NoSim" => DOMAIN mems = {"rom1", "rom2"}
          /\ inputs # NoRecord => DOMAIN inputs = {"rom_in", "rom_in_2"}
          /\ pending.writes = <<>>
          /\ written = {}
          /\ Recorded =>
                /\ DOMAIN trace = {"rom_in", "rom_in_2", "rom_out_1",
                                   "rom_out_2", "rom_out_3", "cmp_out"}
                /\ trace.rom_out_1 = 31 - 2 * trace.rom_in
                /\ trace.rom_out_2 = 31 - 2 * trace.rom_in
                /\ trace.rom_out_3 = 31 - 2 * trace.rom_in_2

\* a ROM cycle has been simulated after the reset
C14_Witness ==
    /\ pc = "rom_loop" /\ phase = "Idle" /\ Recorded
    /\ DOMAIN mems = {"rom1", "rom2"}
    /\ DOMAIN trace = {"rom_in", "rom_in_2", "rom_out_1", "rom_out_2",
                       "rom_out_3", "cmp_out"}

\* the number of cycles with we = 1 among the first n cycles of the notebook
EnabledCycles(n) ==
    Cardinality({c \in 0..(n - 1) : c < MemRunLength /\ MemStimulus(c).we = 1})

\* C15: the count register. Construction sets it to 0; the commit of a cycle
\* with we = 1 makes it (count + 1) mod 8, so 7 goes to 0; the commit of a
\* cycle with we = 0 leaves it alone; it is in 0..7 in every state of a
\* simulation; and in the notebook run it equals the number of enabled
\* cycles committed so far modulo 8, so it is 0 again after exactly 8.
C15_CountIncrements ==
    [][ /\ (block = "memory" /\ phase = "NoSim" /\ phase' = "Idle") =>
              regs'.count = 0
        /\ CommitsMemCycle =>
              regs'.count = IF trace.we = 1
                            THEN IF regs.count = 7 THEN 0 ELSE regs.count + 1
                            ELSE regs.count
        /\ (block' = "memory" /\ phase' # "NoSim") => regs'.count \in 0..7
        /\ (block' = "memory" /\ phase' = "Idle" /\ pc' = "mem_loop") =>
              /\ regs'.count = EnabledCycles(cycle_index') % 8
              /\ (regs'.count = 0 /\ cycle_index' > 2) =>
                    EnabledCycles(cycle_index') = 8
      ]_vars

\* the eighth enabled cycle has just been committed: count is back at 0
C15_Witness ==
    /\ pc = "mem_loop" /\ phase = "Idle" /\ cycle_index = 10
    /\ EnabledCycles(cycle_index) = 8
    /\ regs.count = 0

\* C16: the register commit and the memory commit do not observe each other.
\* At the commit of a memory cycle the two groups give the same state in
\* either order; and when the cycle's we is 1, mem2 is written at the count
\* the cycle started with and nowhere else, in particular not at the
\* incremented count, mem1 is written at waddr, and count becomes the old
\* count plus one modulo 8.
C16_CommitGroupsIndependent ==
    [][ CommitsMemCycle =>
          /\ CommitInOrder("registers", [regs |-> regs, mems |-> mems],
                           pending)
               = CommitInOrder("memories", [regs |-> regs, mems |-> mems],
                               pending)
          /\ trace.count = regs.count
          /\ trace.we = 1 =>
                /\ mems'.mem2[regs.count] = trace.wdata
                /\ \A a \in 0..7 :
                      a # regs.count => mems'.mem2[a] = mems.mem2[a]
                /\ \A a \in 0..7 :
                      a # trace.waddr => mems'.mem1[a] = mems.mem1[a]
                /\ mems'.mem1[trace.waddr] = trace.wdata
                /\ regs'.count = (regs.count + 1) % 8
      ]_vars

\* an enabled cycle has been committed: mem2 holds the data at the old count,
\* the cell at the new count still holds something else
C16_Witness ==
    /\ InMemSim /\ phase = "Idle" /\ Recorded
    /\ trace.we = 1
    /\ regs.count = (trace.count + 1) % 8
    /\ mems.mem2[trace.count] = trace.wdata
    /\ mems.mem2[regs.count] # trace.wdata

\* this step is the commit of one cycle of the three-port block
CommitsPortsCycle == block = "ports" /\ phase = "Commit" /\ phase' = "Idle"

\* two enabled ports of this cycle's inputs target the same address
PortsCollide(in) ==
    \/ in.we_a = 1 /\ in.we_b = 1 /\ in.waddr_a = in.waddr_b
    \/ in.we_a = 1 /\ in.we_c = 1 /\ in.waddr_a = in.waddr_c
    \/ in.we_b = 1 /\ in.we_c = 1 /\ in.waddr_b = in.waddr_c

\* C17: same-cycle write conflict. At the commit of a cycle every address
\* gets the data of the last declared enabled port that targets it (c before
\* b before a), and keeps its value if no enabled port targets it; the step
\* succeeds and the cycle is counted; and the diagnostic is WriteConflict
\* exactly when two enabled ports target the same address.
C17_LastPortWins ==
    [][ CommitsPortsCycle =>
          /\ \A a \in MemAddrs :
                mems'.mem[a] =
                    IF trace.we_c = 1 /\ trace.waddr_c = a THEN trace.wdata_c
                    ELSE IF trace.we_b = 1 /\ trace.waddr_b = a
                         THEN trace.wdata_b
                    ELSE IF trace.we_a = 1 /\ trace.waddr_a = a
                         THEN trace.wdata_a
                    ELSE mems.mem[a]
          /\ err' = "none"
          /\ cycle_index' = cycle_index + 1
          /\ diagnostics' = IF PortsCollide(trace) THEN "WriteConflict"
                            ELSE "none"
      ]_vars

\* ports a and b collided with different data while c wrote elsewhere: the
\* cell holds b's data, c's cell holds c's data, and the conflict is flagged
C17_Witness ==
    /\ block = "ports" /\ phase = "Idle" /\ Recorded /\ err = "none"
    /\ diagnostics = "WriteConflict"
    /\ trace.we_a = 1 /\ trace.we_b = 1 /\ trace.we_c = 1
    /\ trace.waddr_a = trace.waddr_b /\ trace.waddr_c # trace.waddr_b
    /\ trace.wdata_a # trace.wdata_b
    /\ mems.mem[trace.waddr_b] = trace.wdata_b
    /\ mems.mem[trace.waddr_c] = trace.wdata_c

\* C18: the two read ports of rom2 are independent. In every recorded cycle
\* of a ROM simulation rom_out_2 = 31 - 2 * rom_in and rom_out_3 =
\* 31 - 2 * rom_in_2; the cycle evaluated with any other rom_in and the same
\* rom_in_2 gives the same rom_out_3; and the cycle evaluated with any other
\* rom_in_2 and the same rom_in gives the same rom_out_1, rom_out_2 and
\* cmp_out. The ROM circuit has no register and its contents never change,
\* so what holds cycle by cycle holds for the traces of two runs.
C18_ReadPortsIndependent ==
    (InRomSim /\ Recorded) =>
        /\ trace.rom_out_2 = 31 - 2 * trace.rom_in
        /\ trace.rom_out_3 = 31 - 2 * trace.rom_in_2
        /\ regs = <<>>
        /\ \A a \in 0..15 :
              RomTrace([rom_in |-> a, rom_in_2 |-> trace.rom_in_2],
                       mems).rom_out_3 = trace.rom_out_3
        /\ \A b \in 0..15 :
              LET other == RomTrace([rom_in |-> trace.rom_in, rom_in_2 |-> b],
                                    mems)
              IN  /\ other.rom_out_1 = trace.rom_out_1
                  /\ other.rom_out_2 = trace.rom_out_2
                  /\ other.cmp_out = trace.cmp_out

\* a cycle whose two read ports of rom2 read different addresses
C18_Witness ==
    /\ InRomSim /\ Recorded
    /\ trace.rom_in # trace.rom_in_2
    /\ trace.rom_out_2 = 31 - 2 * trace.rom_in
    /\ trace.rom_out_3 = 31 - 2 * trace.rom_in_2
    /\ trace.rom_out_3 # trace.rom_out_2

\* C19: an enabled write touches exactly one cell of each memory. The commit
\* of a cycle with we = 1 leaves mem1 as it was except that address waddr
\* holds wdata, and mem2 as it was except that the address count had at the
\* start of the cycle holds wdata; neither write reaches the other memory,
\* and no memory appears or disappears.
C19_WriteTouchesOneCell ==
    [][ (CommitsMemCycle /\ trace.we = 1) =>
          /\ mems'.mem1 = [mems.mem1 EXCEPT ![trace.waddr] = trace.wdata]
          /\ mems'.mem2 = [mems.mem2 EXCEPT ![trace.count] = trace.wdata]
          /\ DOMAIN mems' = {"mem1", "mem2"}
          /\ DOMAIN mems'.mem1 = 0..7 /\ DOMAIN mems'.mem2 = 0..7
      ]_vars

\* a committed cycle wrote mem1 and mem2 at different addresses: each memory
\* holds the data at its own address and not at the other's
C19_Witness ==
    /\ InMemSim /\ phase = "Idle" /\ Recorded
    /\ trace.we = 1 /\ trace.waddr # trace.count
    /\ mems.mem1[trace.waddr] = trace.wdata
    /\ mems.mem2[trace.count] = trace.wdata
    /\ mems.mem1[trace.count] # trace.wdata
    /\ mems.mem2[trace.waddr] # trace.wdata

\* C20: both driving loops only issue valid steps. In the notebook run no
\* step ever fails; every call of the memory loop gives exactly we, waddr,
\* wdata and raddr with we <= 1, waddr and raddr <= 7 and wdata <= 9; every
\* call of the ROM loop gives exactly rom_in and rom_in_2 with values in
\* 0..15; every call made has been accepted, so between cycles the number of
\* committed cycles is the number of calls; the run never stops before its
\* end; and the loops end after 26 and after 20 committed cycles.
C20_LoopsIssueValidSteps ==
    /\ err = "none"
    /\ (block = "memory" /\ call # NoRecord) =>
          /\ DOMAIN call = {"we", "waddr", "wdata", "raddr"}
          /\ call.we \in 0..1
          /\ call.waddr \in 0..7 /\ call.raddr \in 0..7
          /\ call.wdata \in 0..9
          /\ inputs \in {call, NoRecord}
    /\ (block = "rom" /\ call # NoRecord) =>
          /\ DOMAIN call = {"rom_in", "rom_in_2"}
          /\ call.rom_in \in 0..15 /\ call.rom_in_2 \in 0..15
          /\ inputs \in {call, NoRecord}
    /\ phase = "Idle" => cycle_index = cycle
    /\ phase \in {"Evaluate", "Commit"} => cycle_index = cycle - 1
    /\ pc = "mem_loop" => cycle <= 26
    /\ pc = "mem_rendered" => cycle = 26 /\ cycle_index = 26
    /\ pc = "rom_loop" => cycle <= 20
    /\ pc = "done" => cycle = 20 /\ cycle_index = 20
    /\ pc = "done" \/ ENABLED Next

\* the ROM loop has ended after 20 accepted calls, the last with rom_in = 1
C20_Witness ==
    /\ pc = "done" /\ err = "none" /\ phase = "Idle"
    /\ cycle = 20 /\ cycle_index = 20
    /\ call # NoRecord /\ call.rom_in = 1 /\ call.rom_in_2 = 15

====
